---------------------------- MODULE Spec2Model ----------------------------
(***************************************************************************)
(* train_cifar.py: the entry script (parse flags, select backbone and      *)
(* regimen, resume from a checkpoint) and its two training drivers,        *)
(* train_manifold_mixup and train_rotation.                                *)
(*                                                                         *)
(* Spec       one run of the script, at the granularity of its statements  *)
(*            up to the driver call and of one epoch inside a driver.      *)
(* SpecBatch  the per-batch computations of the drivers: the mixup loss,   *)
(*            the four-way rotation of a batch, the evaluation loop.       *)
(*                                                                         *)
(* Tensors are symbolic: a parameter value is [of |-> the name it was last  *)
(* trained (or created) under, ver |-> the number of epochs applied to it]. *)
(* Parameter names are written without the "module." prefix that           *)
(* DataParallel puts in front of every name on both save and load.         *)
(***************************************************************************)
EXTENDS Integers, Sequences, FiniteSets, TLC

VARIABLES
    argv,              \* the command line: the flags as given
    runs,              \* invocations of the script so far
    pc,                \* position of the script
    err,               \* the unhandled exception that ended the run, or "none"
    params,            \* parse_args('train') result
    use_gpu,           \* torch.cuda.is_available()
    arch,              \* naming convention of the backbone's linear head
    files,             \* checkpoint directory of each method: epoch -> record
    model,             \* the variable `model`
    tmp,               \* the record torch.load returned
    state,             \* the local `state` mapping handed to the load
    start_epoch,       \* the script's start_epoch
    stop_epoch,        \* the script's stop_epoch
    path,              \* resume path taken by the S2M2_R branch
    rotate_classifier, \* train_rotation's auxiliary head
    epoch,             \* the driver's loop variable
    d_start,           \* the driver's start_epoch argument
    d_stop,            \* the driver's stop_epoch argument
    d_tmp,             \* train_rotation's tmp argument
    trained,           \* epochs the driver has trained, in order
    saved,             \* epochs at which this run wrote a checkpoint
    bpc,               \* position of the per-batch computation
    batch,             \* the batch at hand: [x, y]
    outputs,           \* the logits of the batch
    aug,               \* the rotation-expanded batch: [x_, y_, a_]
    lam,               \* mixup lambda, in units of 1/LamDen
    targets,           \* the two label orderings of the mixup forward
    loss,              \* the mixup loss, in units of 1/LamDen
    n_test,            \* number of batches of the held-out loader
    i_test,            \* the evaluation loop's index
    fetched,           \* held-out batches drawn from the loader this evaluation
    forwarded,         \* held-out batch indices forwarded through the model
    total              \* samples counted in the accuracy totals

runVars == <<argv, runs, pc, err, params, use_gpu, arch, files, model, tmp, state,
             start_epoch, stop_epoch, path, rotate_classifier, epoch,
             d_start, d_stop, d_tmp, trained, saved>>
batchVars == <<bpc, batch, outputs, aug, lam, targets, loss, n_test, i_test,
               fetched, forwarded, total>>
vars == <<runVars, batchVars>>

-----------------------------------------------------------------------------
(* Bounds of the model *)
MaxStop == 3        \* largest configured stop_epoch
MaxFreq == 2        \* largest configured save_freq
MaxRestored == 1    \* largest epoch of a checkpoint found at the first startup
MaxRuns == 2        \* invocations of the script on the same directories
MaxBatch == 2       \* largest number of images in a batch
Side == 2           \* height and width of an image
LamDen == 4         \* lambda is drawn from 0/LamDen, 1/LamDen, ..., 1
MaxTestBatches == 11 \* largest number of batches of the held-out loader

(* Flag values *)
Models == {"WideResNet28_10", "ResNet18"}
Methods == {"S2M2_R", "rotation"}
ModelNames == Models \cup {"Conv4"}
MethodNames == Methods \cup {"baseline"}

WrnFeatDim == 640
ResFeatDim == 512
EvalLimit == 10
Classes == {0, 1}

-----------------------------------------------------------------------------
(* State mappings *)
Backbone == {"conv1.weight"}
PlainHead == {"linear.weight", "linear.bias"}
DistHead == {"linear.L.weight_g", "linear.L.weight_v"}
Archs == {"plain", "dist", "both"}

ArchKeys(a) ==
    Backbone \cup (IF a = "plain" THEN PlainHead
                   ELSE IF a = "dist" THEN DistHead
                   ELSE PlainHead \cup DistHead)

EmptySD == [k \in {} |-> 0]

\* state_dict() of a model of architecture a whose parameters saw ver epochs
StateDict(a, ver) == [k \in ArchKeys(a) |-> [of |-> k, ver |-> ver]]

\* one epoch of optimizer steps over a parameter mapping: every parameter
\* gets a new value of its own
Stepped(sd) == [k \in DOMAIN sd |-> [of |-> k, ver |-> sd[k].ver + 1]]

\* dict.update
Updated(d, s) ==
    [k \in DOMAIN d \cup DOMAIN s |-> IF k \in DOMAIN s THEN s[k] ELSE d[k]]

\* load_state_dict is strict: the names must be exactly the module's
LoadAccepts(m, sd) == DOMAIN sd = DOMAIN m.sd

UndefinedModel == [defined |-> FALSE, sd |-> EmptySD]
UndefinedHead == [defined |-> FALSE, width |-> 0, val |-> [of |-> "rotate", ver |-> 0]]
\* nn.Sequential(nn.Linear(w, 4)), freshly initialised
FreshHead(w) == [defined |-> TRUE, width |-> w, val |-> [of |-> "rotate", ver |-> 0]]

(* Checkpoint records *)
(* has_rotate: whether the record holds a 'rotate' entry.  by: who wrote    *)
(* the file (not part of the record; kept to tell the files apart).        *)
NoHead == [of |-> "rotate", ver |-> 0]
NoRecord == [epoch |-> -1, state |-> EmptySD, has_rotate |-> FALSE,
             rotate |-> NoHead, by |-> "none"]
\* {'epoch': epoch, 'state': model.state_dict()}
MixupRecord(e, sd) == [epoch |-> e, state |-> sd, has_rotate |-> FALSE,
                       rotate |-> NoHead, by |-> "train_manifold_mixup"]
\* {'epoch': epoch, 'state': model.state_dict(), 'rotate': rotate_classifier.state_dict()}
RotationRecord(e, sd, head) == [epoch |-> e, state |-> sd, has_rotate |-> TRUE,
                                rotate |-> head, by |-> "train_rotation"]

EmptyDir == [e \in {} |-> NoRecord]
WriteFile(dir, e, rec) == [x \in DOMAIN dir \cup {e} |-> IF x = e THEN rec ELSE dir[x]]

SetMax(S) == CHOOSE x \in S : \A y \in S : y <= x

\* get_resume_file: the highest-epoch file of the directory, None when it has none
HasResumeFile(dir) == DOMAIN dir # {}
ResumeFile(dir) == dir[SetMax(DOMAIN dir)]


-----------------------------------------------------------------------------
(* The script: one run *)

\* a directory as found at the first startup: one file per epoch 0..e0, of a
\* model of architecture a, with or without a 'rotate' entry
SeedDir(a, e0, withRotate) ==
    [e \in 0..e0 |->
        [epoch |-> e, state |-> StateDict(a, e + 1), has_rotate |-> withRotate,
         rotate |-> IF withRotate THEN [of |-> "rotate", ver |-> e + 1] ELSE NoHead,
         by |-> "found"]]

BatchIdle ==
    /\ bpc = "idle"
    /\ batch = [x |-> <<>>, y |-> <<>>]
    /\ outputs = <<>>
    /\ aug = [x_ |-> <<>>, y_ |-> <<>>, a_ |-> <<>>]
    /\ lam = 0
    /\ targets = [a |-> <<>>, b |-> <<>>]
    /\ loss = 0
    /\ n_test = 0
    /\ i_test = 0
    /\ fetched = 0
    /\ forwarded = <<>>
    /\ total = 0

\* save_freq is at least 1 (0 makes epoch % save_freq raise); the configured
\* start_epoch is overwritten on every path that reaches a driver
Init ==
    /\ argv \in [model : ModelNames, method : MethodNames, resume : BOOLEAN,
                 start_epoch : {0}, stop_epoch : 0..MaxStop,
                 save_freq : 1..MaxFreq]
    /\ runs = 1
    /\ pc = "entry"
    /\ err = "none"
    /\ params = argv
    /\ use_gpu \in BOOLEAN
    /\ arch \in Archs
    /\ \E a \in Archs, e0 \in 0..MaxRestored :
          \E md \in {EmptyDir, SeedDir(a, e0, FALSE)},
             rd \in {EmptyDir, SeedDir(a, e0, TRUE), SeedDir(a, e0, FALSE)} :
             files = [m \in Methods |-> IF m = "S2M2_R" THEN md ELSE rd]
    /\ model = UndefinedModel
    /\ tmp = NoRecord
    /\ state = EmptySD
    /\ start_epoch = 0
    /\ stop_epoch = 0
    /\ path = "none"
    /\ rotate_classifier = UndefinedHead
    /\ epoch = 0
    /\ d_start = 0
    /\ d_stop = 0
    /\ d_tmp = NoRecord
    /\ trained = <<>>
    /\ saved = {}
    /\ BatchIdle

\* an unhandled exception ends the process
Raise(e) == pc' = "failed" /\ err' = e

\* variant: the flag is left as given
ResumeAsGiven(flag) == flag

\* params.resume = True, whatever the flag said
ForcedResume(flag) == TRUE

Entry ==
    /\ pc = "entry"
    /\ params' = [argv EXCEPT !.resume = ForcedResume(argv.resume)]
    /\ start_epoch' = argv.start_epoch
    /\ stop_epoch' = argv.stop_epoch
    /\ pc' = "select_model"
    /\ UNCHANGED <<err, use_gpu, arch, files, model, tmp, state, path,
                   rotate_classifier, epoch, d_start, d_stop, d_tmp, trained, saved>>
    /\ UNCHANGED <<argv, runs, batchVars>>

\* variant: a final else builds a default backbone
BuildsAnyModel(name) == TRUE

\* the if/elif over params.model has no else: another name binds nothing
BuildsModel(name) == name \in Models

SelectModel ==
    /\ pc = "select_model"
    /\ model' = IF BuildsModel(params.model)
                THEN [defined |-> TRUE, sd |-> StateDict(arch, 0)]
                ELSE model
    /\ pc' = "select_method"
    /\ UNCHANGED <<err, params, use_gpu, arch, files, tmp, state, start_epoch,
                   stop_epoch, path, rotate_classifier, epoch, d_start, d_stop,
                   d_tmp, trained, saved>>
    /\ UNCHANGED <<argv, runs, batchVars>>

\* the if/elif over params.method has no else: another name runs nothing
MethodBranch(name) ==
    IF name = "S2M2_R" THEN "mixup_wrap"
    ELSE IF name = "rotation" THEN "rot_place"
    ELSE "done"

SelectMethod ==
    /\ pc = "select_method"
    /\ pc' = MethodBranch(params.method)
    /\ UNCHANGED <<err, params, use_gpu, arch, files, model, tmp, state,
                   start_epoch, stop_epoch, path, rotate_classifier, epoch,
                   d_start, d_stop, d_tmp, trained, saved>>
    /\ UNCHANGED <<argv, runs, batchVars>>

\* DataParallel(model, ...) and an unconditional model.cuda()
MixupWrap ==
    /\ pc = "mixup_wrap"
    /\ IF ~model.defined THEN Raise("NameError")
       ELSE IF ~use_gpu THEN Raise("CudaError")
       ELSE pc' = "mixup_resume" /\ err' = err
    /\ UNCHANGED <<params, use_gpu, arch, files, model, tmp, state, start_epoch,
                   stop_epoch, path, rotate_classifier, epoch, d_start, d_stop,
                   d_tmp, trained, saved>>
    /\ UNCHANGED <<argv, runs, batchVars>>

\* which directory the S2M2_R branch resumes from
ResumeDir(resume) == IF resume THEN "S2M2_R" ELSE "rotation"

MixupResume ==
    /\ pc = "mixup_resume"
    /\ path' = IF params.resume THEN "same" ELSE "bootstrap"
    /\ LET dir == files[ResumeDir(params.resume)] IN
       IF ~HasResumeFile(dir)
       THEN /\ Raise("NoResumeFile")
            /\ UNCHANGED <<tmp, state, start_epoch>>
       ELSE /\ tmp' = ResumeFile(dir)
            /\ start_epoch' = tmp'.epoch + 1
            /\ state' = tmp'.state
            /\ pc' = IF params.resume THEN "mixup_remap" ELSE "mixup_load"
            /\ err' = err
    /\ UNCHANGED <<params, use_gpu, arch, files, model, stop_epoch,
                   rotate_classifier, epoch, d_start, d_stop, d_tmp, trained, saved>>
    /\ UNCHANGED <<argv, runs, batchVars>>

\* state[...L.weight_g] = state[...weight]; state[...L.weight_v] = state[...bias]
Remapped(s) ==
    Updated(s, [k \in DistHead |-> IF k = "linear.L.weight_g"
                                   THEN s["linear.weight"] ELSE s["linear.bias"]])

MixupRemap ==
    /\ pc = "mixup_remap"
    /\ IF "linear.weight" \notin DOMAIN state
       THEN Raise("KeyError") /\ state' = state
       ELSE IF "linear.bias" \notin DOMAIN state
       THEN /\ Raise("KeyError")
            /\ state' = Updated(state, [k \in {"linear.L.weight_g"} |-> state["linear.weight"]])
       ELSE /\ state' = Remapped(state)
            /\ pc' = "mixup_load"
            /\ err' = err
    /\ tmp' = [tmp EXCEPT !.state = state']   \* state is tmp['state'] itself
    /\ UNCHANGED <<params, use_gpu, arch, files, model, start_epoch,
                   stop_epoch, path, rotate_classifier, epoch, d_start, d_stop,
                   d_tmp, trained, saved>>
    /\ UNCHANGED <<argv, runs, batchVars>>

\* the mapping handed to model.load_state_dict on either resume path
ModelDictLoad(m, s, p) == IF p = "same" THEN Updated(m.sd, s) ELSE s

MixupLoad ==
    /\ pc = "mixup_load"
    /\ LET sd == ModelDictLoad(model, state, path) IN
       IF LoadAccepts(model, sd)
       THEN /\ model' = [model EXCEPT !.sd = sd]
            /\ pc' = "mixup_call"
            /\ err' = err
       ELSE Raise("LoadError") /\ model' = model
    /\ UNCHANGED <<params, use_gpu, arch, files, tmp, state, start_epoch,
                   stop_epoch, path, rotate_classifier, epoch, d_start, d_stop,
                   d_tmp, trained, saved>>
    /\ UNCHANGED <<argv, runs, batchVars>>

\* variant: the configured stop_epoch is handed on as it is
MixupStopAsConfigured(start, stop) == stop

\* the stop bound the script hands to train_manifold_mixup
MixupStop(start, stop) == start + stop

MixupCall ==
    /\ pc = "mixup_call"
    /\ d_start' = start_epoch
    /\ d_stop' = MixupStop(start_epoch, stop_epoch)
    /\ epoch' = start_epoch
    /\ pc' = "mixup_epoch"
    /\ UNCHANGED <<err, params, use_gpu, arch, files, model, tmp, state,
                   start_epoch, stop_epoch, path, rotate_classifier, d_tmp,
                   trained, saved>>
    /\ UNCHANGED <<argv, runs, batchVars>>

\* variant: the final epoch is saved only when it is a multiple
ShouldSaveOnMultiples(e, freq, stop) == e % freq = 0

\* (epoch % params.save_freq == 0) or (epoch == stop_epoch - 1)
ShouldSave(e, freq, stop) == (e % freq = 0) \/ (e = stop - 1)

MixupEpoch ==
    /\ pc = "mixup_epoch"
    /\ epoch < d_stop
    /\ model' = [model EXCEPT !.sd = Stepped(model.sd)]
    /\ trained' = Append(trained, epoch)
    /\ IF ShouldSave(epoch, params.save_freq, d_stop)
       THEN /\ files' = [files EXCEPT !["S2M2_R"] =
                            WriteFile(@, epoch, MixupRecord(epoch, model'.sd))]
            /\ saved' = saved \cup {epoch}
       ELSE UNCHANGED <<files, saved>>
    /\ epoch' = epoch + 1
    /\ UNCHANGED <<pc, err, params, use_gpu, arch, tmp, state, start_epoch,
                   stop_epoch, path, rotate_classifier, d_start, d_stop, d_tmp>>
    /\ UNCHANGED <<argv, runs, batchVars>>

MixupReturn ==
    /\ pc = "mixup_epoch"
    /\ epoch >= d_stop
    /\ pc' = "done"
    /\ UNCHANGED <<err, params, use_gpu, arch, files, model, tmp, state,
                   start_epoch, stop_epoch, path, rotate_classifier, epoch,
                   d_start, d_stop, d_tmp, trained, saved>>
    /\ UNCHANGED <<argv, runs, batchVars>>

\* if use_gpu: ... model.cuda()
RotPlace ==
    /\ pc = "rot_place"
    /\ IF use_gpu /\ ~model.defined THEN Raise("NameError")
       ELSE pc' = "rot_resume" /\ err' = err
    /\ UNCHANGED <<params, use_gpu, arch, files, model, tmp, state, start_epoch,
                   stop_epoch, path, rotate_classifier, epoch, d_start, d_stop,
                   d_tmp, trained, saved>>
    /\ UNCHANGED <<argv, runs, batchVars>>

RotResume ==
    /\ pc = "rot_resume"
    /\ IF ~params.resume
       THEN /\ pc' = "rot_call"
            /\ UNCHANGED <<err, tmp, state, start_epoch, model>>
       ELSE IF ~HasResumeFile(files["rotation"])
       THEN /\ Raise("NoResumeFile")
            /\ UNCHANGED <<tmp, state, start_epoch, model>>
       ELSE /\ tmp' = ResumeFile(files["rotation"])
            /\ start_epoch' = tmp'.epoch + 1
            /\ state' = tmp'.state
            /\ IF ~model.defined
               THEN Raise("NameError") /\ model' = model
               ELSE IF ~LoadAccepts(model, state')
               THEN Raise("LoadError") /\ model' = model
               ELSE /\ model' = [model EXCEPT !.sd = state']
                    /\ pc' = "rot_call"
                    /\ err' = err
    /\ UNCHANGED <<params, use_gpu, arch, files, stop_epoch, path,
                   rotate_classifier, epoch, d_start, d_stop, d_tmp, trained, saved>>
    /\ UNCHANGED <<argv, runs, batchVars>>

\* the tmp argument of the script's call train_rotation(..., params, None)
PassedTmp(t) == NoRecord

\* the if/elif over params.model inside train_rotation
NewHead(name) ==
    IF name = "WideResNet28_10" THEN FreshHead(WrnFeatDim)
    ELSE IF name = "ResNet18" THEN FreshHead(ResFeatDim)
    ELSE UndefinedHead

\* if tmp is not None and 'rotate' in tmp: rotate_classifier.load_state_dict(tmp['rotate'])
HeadAfterResume(head, t) ==
    IF t # NoRecord /\ t.has_rotate THEN [head EXCEPT !.val = t.rotate] ELSE head

RotCall ==
    /\ pc = "rot_call"
    /\ d_tmp' = PassedTmp(tmp)
    /\ d_start' = start_epoch
    /\ d_stop' = stop_epoch
    /\ epoch' = start_epoch
    /\ LET head == NewHead(params.model) IN
       IF ~head.defined
       THEN Raise("UnboundLocalError") /\ rotate_classifier' = head
       ELSE /\ rotate_classifier' = HeadAfterResume(head, d_tmp')
            /\ pc' = "rot_epoch"
            /\ err' = err
    /\ UNCHANGED <<params, use_gpu, arch, files, model, tmp, state, start_epoch,
                   stop_epoch, path, trained, saved>>
    /\ UNCHANGED <<argv, runs, batchVars>>

RotationEpoch ==
    /\ pc = "rot_epoch"
    /\ epoch < d_stop
    /\ model' = [model EXCEPT !.sd = Stepped(model.sd)]
    /\ rotate_classifier' = [rotate_classifier EXCEPT !.val.ver = @ + 1]
    /\ trained' = Append(trained, epoch)
    /\ IF ShouldSave(epoch, params.save_freq, d_stop)
       THEN /\ files' = [files EXCEPT !["rotation"] =
                            WriteFile(@, epoch,
                                RotationRecord(epoch, model'.sd, rotate_classifier'.val))]
            /\ saved' = saved \cup {epoch}
       ELSE UNCHANGED <<files, saved>>
    /\ epoch' = epoch + 1
    /\ UNCHANGED <<pc, err, params, use_gpu, arch, tmp, state, start_epoch,
                   stop_epoch, path, d_start, d_stop, d_tmp>>
    /\ UNCHANGED <<argv, runs, batchVars>>

RotationReturn ==
    /\ pc = "rot_epoch"
    /\ epoch >= d_stop
    /\ pc' = "done"
    /\ UNCHANGED <<err, params, use_gpu, arch, files, model, tmp, state,
                   start_epoch, stop_epoch, path, rotate_classifier, epoch,
                   d_start, d_stop, d_tmp, trained, saved>>
    /\ UNCHANGED <<argv, runs, batchVars>>

\* the same command line is run again on the directories the last run left
Rerun ==
    /\ pc \in {"done", "failed"}
    /\ runs < MaxRuns
    /\ runs' = runs + 1
    /\ pc' = "entry"
    /\ err' = "none"
    /\ params' = argv
    /\ model' = UndefinedModel
    /\ tmp' = NoRecord
    /\ state' = EmptySD
    /\ start_epoch' = 0
    /\ stop_epoch' = 0
    /\ path' = "none"
    /\ rotate_classifier' = UndefinedHead
    /\ epoch' = 0
    /\ d_start' = 0
    /\ d_stop' = 0
    /\ d_tmp' = NoRecord
    /\ trained' = <<>>
    /\ saved' = {}
    /\ UNCHANGED <<argv, use_gpu, arch, files, batchVars>>

Next ==
    \/ Rerun
    \/ Entry
    \/ SelectModel
    \/ SelectMethod
    \/ MixupWrap
    \/ MixupResume
    \/ MixupRemap
    \/ MixupLoad
    \/ MixupCall
    \/ MixupEpoch
    \/ MixupReturn
    \/ RotPlace
    \/ RotResume
    \/ RotCall
    \/ RotationEpoch
    \/ RotationReturn

Spec == Init /\ [][Next]_vars

-----------------------------------------------------------------------------
(* Properties of a run *)

InDriver == pc \in {"mixup_epoch", "rot_epoch"}
Returned == pc = "done" /\ params.method \in Methods

\* the epochs a, a+1, ..., b-1 in order
Epochs(a, b) == [i \in 1..(b - a) |-> a + i - 1]

\* C1 as stated: after a driver completes on [s, e) with save_freq F, the
\* checkpoints of the run are at s, s+F, s+2F, ... below e, at e-1, and at
\* no other epoch.
C1_CadenceFromStart ==
    (Returned /\ d_start < d_stop) =>
        saved = {e \in d_start..(d_stop - 1) :
                    (e - d_start) % params.save_freq = 0 \/ e = d_stop - 1}

\* C1 amended: in both drivers the checkpoints of a run over [s, e) are at
\* the epochs of [s, e) that are multiples of save_freq, and at e-1, and at
\* no other epoch; each is the file keyed by its epoch number and holds that
\* epoch number.
C1_CadenceMultiples ==
    (InDriver \/ Returned) =>
        /\ saved = {e \in d_start..(epoch - 1) :
                       e % params.save_freq = 0 \/ e = d_stop - 1}
        /\ \A e \in d_start..(epoch - 1) :
              e \in DOMAIN files[params.method] <=> e \in saved
        /\ \A e \in saved : files[params.method][e].epoch = e
        /\ (Returned /\ d_start < d_stop) => epoch = d_stop /\ (d_stop - 1) \in saved

C1_Witness ==
    /\ Returned
    /\ params.method = "S2M2_R"
    /\ d_start % params.save_freq # 0
    /\ d_stop - d_start >= 3
    /\ Cardinality(saved) = 2

\* C2 as stated: a record written by train_manifold_mixup, picked as the
\* highest-epoch file at the next S2M2_R startup, loads without failure and
\* gives every parameter of the model its saved value, with start_epoch one
\* past the record's epoch.
C2_RoundTrip ==
    (/\ params.method = "S2M2_R"
     /\ \/ tmp.by = "train_manifold_mixup"
        \/ /\ tmp.by = "found"
           /\ ~tmp.has_rotate
           /\ DOMAIN files["S2M2_R"][tmp.epoch].state = ArchKeys(arch)) =>
        /\ pc # "failed"
        /\ pc = "mixup_call" =>
              /\ model.sd = files["S2M2_R"][tmp.epoch].state
              /\ start_epoch = tmp.epoch + 1

\* C3 as stated: after the remap of a state holding linear.weight and
\* linear.bias, linear.L.weight_g and linear.L.weight_v carry their values,
\* and the mapping handed to load_state_dict has exactly the names of the
\* model: none missing, none extra.
C3_RemapExactNames ==
    (pc = "mixup_load" /\ path = "same") =>
        /\ {"linear.weight", "linear.bias"} \subseteq DOMAIN state
        /\ state["linear.L.weight_g"] = state["linear.weight"]
        /\ state["linear.L.weight_v"] = state["linear.bias"]
        /\ DOMAIN ModelDictLoad(model, state, path) = ArchKeys(arch)

\* C4 as stated: when the rotation regimen starts from a record that holds a
\* 'rotate' entry, the head is loaded from it before the first epoch; the
\* head is freshly initialised only when the record holds no such entry.
C4_HeadResumed ==
    (pc = "rot_epoch" /\ trained = <<>>) =>
        /\ tmp.has_rotate => rotate_classifier.val = tmp.rotate
        /\ rotate_classifier.val = NoHead => ~tmp.has_rotate

\* C8 as stated: the mixup run trains stop_epoch - start_epoch epochs,
\* numbered start_epoch .. stop_epoch - 1, for the configured stop_epoch and
\* start_epoch = restored epoch + 1.
C8_StopMinusStart ==
    (pc = "done" /\ params.method = "S2M2_R") =>
        /\ Len(trained) = params.stop_epoch - start_epoch
        /\ trained = Epochs(start_epoch, params.stop_epoch)

\* C8 amended: a mixup run that enters the driver trains exactly the
\* configured stop_epoch epochs, numbered start_epoch .. start_epoch +
\* stop_epoch - 1 in increasing order, each once, with start_epoch = restored
\* epoch + 1 whatever start_epoch was configured; the driver itself trains
\* its bounds' difference.
C8_StopMoreEpochs ==
    (params.method = "S2M2_R" /\ pc \in {"mixup_epoch", "done"}) =>
        /\ start_epoch = tmp.epoch + 1
        /\ d_start = start_epoch
        /\ d_stop - d_start = argv.stop_epoch
        /\ trained = Epochs(start_epoch, epoch)
        /\ epoch <= d_stop
        /\ pc = "done" =>
              /\ Len(trained) = argv.stop_epoch
              /\ trained = Epochs(start_epoch, start_epoch + argv.stop_epoch)

C8_Witness ==
    /\ pc = "done"
    /\ params.method = "S2M2_R"
    /\ Len(trained) = 3
    /\ start_epoch = 2
    /\ trained = <<2, 3, 4>>

\* C9: whatever the resume flag of the command line, an S2M2_R startup that
\* gets to the resume takes the same-regimen path: it reads the
\* highest-epoch file of the S2M2_R directory and sets start_epoch one past
\* its epoch; the path that bootstraps from the rotation directory is taken
\* in no run.
C9_AlwaysSameRegimen ==
    /\ path # "bootstrap"
    /\ params.method = "S2M2_R"
          /\ (pc \in {"mixup_remap", "mixup_load", "mixup_call", "mixup_epoch"}
              \/ (pc = "failed" /\ err \in {"NoResumeFile", "KeyError", "LoadError"}))
       => path = "same"
    /\ pc \in {"mixup_remap", "mixup_load", "mixup_call"} =>
          /\ tmp.epoch \in DOMAIN files["S2M2_R"]
          /\ tmp.epoch = files["S2M2_R"][tmp.epoch].epoch
          /\ pc = "mixup_remap" => tmp = files["S2M2_R"][tmp.epoch]
          /\ \A e \in DOMAIN files["S2M2_R"] : e <= tmp.epoch
          /\ start_epoch = tmp.epoch + 1
    /\ (pc = "failed" /\ err = "NoResumeFile" /\ params.method = "S2M2_R")
          => files["S2M2_R"] = EmptyDir

C9_Witness ==
    /\ argv.resume = FALSE
    /\ path = "same"
    /\ pc = "mixup_epoch"
    /\ trained # <<>>
    /\ files["rotation"] # EmptyDir

\* C10 as stated: with a model name and a method name both outside the
\* supported ones the run never completes normally.
C10_AlwaysFails ==
    (params.model \notin Models /\ params.method \notin Methods) =>
        pc # "done"

\* C10 amended: a model name outside the supported ones passes the dispatch
\* without error and leaves model undefined; with a supported method the
\* run then never trains and never completes normally: it ends in a
\* NameError at the first use of model, or, in the rotation regimen without
\* a GPU, in the failure of the resume-file load before that use when the
\* directory holds no checkpoint.  A method name outside the supported ones
\* runs no regimen at all: the script completes normally, without training
\* and without failure, whatever the model name.
C10_Fallthrough ==
    /\ pc = "select_method" => err = "none"
    /\ (params.model \notin Models /\ pc \notin {"entry", "select_model"}) =>
          /\ ~model.defined
          /\ ~rotate_classifier.defined
          /\ trained = <<>>
          /\ saved = {}
    /\ (params.model \notin Models /\ params.method \in Methods) =>
          /\ pc \in {"entry", "select_model", "select_method", "mixup_wrap",
                     "rot_place", "rot_resume", "failed"}
          /\ pc = "rot_resume" => ~use_gpu
          /\ pc = "failed" =>
                \/ err = "NameError"
                \/ /\ err = "NoResumeFile"
                   /\ params.method = "rotation"
                   /\ ~use_gpu
                   /\ files["rotation"] = EmptyDir
    /\ params.method \notin Methods =>
          /\ pc \in {"entry", "select_model", "select_method", "done"}
          /\ err = "none"
          /\ trained = <<>>

C10_Witness ==
    /\ params.model \notin Models
    /\ params.method = "rotation"
    /\ ~use_gpu
    /\ pc = "failed"
    /\ err = "NameError"
    /\ tmp # NoRecord

-----------------------------------------------------------------------------
(* The per-batch computations *)

(* An image is one channel's Side x Side matrix, a sequence of rows: the     *)
(* channel axis (dim 0) is touched by neither transpose(2, 1) nor flip(1).   *)
(* Image(d) has pixels that differ from each other and from every other      *)
(* image's, so that any displacement of a pixel shows.                       *)
Image(d) == [i \in 1..Side |-> [k \in 1..Side |-> (d - 1) * Side * Side + (i - 1) * Side + k]]

\* a batch of the loader: n images and their class labels
Batches ==
    UNION {{[x |-> [j \in 1..n |-> Image(j)], y |-> y] : y \in [1..n -> Classes]}
           : n \in 1..MaxBatch}

\* t.transpose(2, 1): rows and columns exchanged
Transpose(m) == [i \in 1..Len(m[1]) |-> [k \in 1..Len(m) |-> m[k][i]]]

\* t.flip(1): the rows in reverse order
Flip(m) == [i \in 1..Len(m) |-> m[Len(m) + 1 - i]]

\* x.transpose(2, 1).flip(1)
Rot90(m) == Flip(Transpose(m))

RECURSIVE RotateFrom(_, _, _)
\* the for j in range(bs) loop, from image j on, appending to acc
RotateFrom(b, j, acc) ==
    IF j > Len(b.x) THEN acc
    ELSE LET x90 == Rot90(b.x[j])
             x180 == Rot90(x90)
             x270 == Rot90(x180)
         IN RotateFrom(b, j + 1,
                [x_ |-> acc.x_ \o <<b.x[j], x90, x180, x270>>,
                 y_ |-> acc.y_ \o [r \in 1..4 |-> b.y[j]],
                 a_ |-> acc.a_ \o <<0, 1, 2, 3>>])

NoAug == [x_ |-> <<>>, y_ |-> <<>>, a_ |-> <<>>]

\* the expansion of a training batch
RotatedTrain(b) == RotateFrom(b, 1, NoAug)

\* variant: x270 is turned from x90 instead of x180
RotatedEvalFromX90(b) ==
    LET good == RotateFrom(b, 1, NoAug) IN
    [good EXCEPT !.x_ = [p \in 1..Len(good.x_) |->
                            IF p % 4 = 0 THEN good.x_[p - 1] ELSE good.x_[p]]]

\* the expansion of a held-out batch
RotatedEval(b) == RotateFrom(b, 1, NoAug)

(* The logits of a sample are given by its negative log-likelihood for each  *)
(* class; nn.CrossEntropyLoss() is their mean over the batch at the given    *)
(* labels.  criterion returns the sum: the loss in units of 1/n.             *)
SamplePreds == {[c \in Classes |-> IF c = 0 THEN 1 ELSE 3],
                [c \in Classes |-> IF c = 0 THEN 3 ELSE 1]}

RECURSIVE SumTo(_, _, _)
SumTo(pred, y, n) == IF n = 0 THEN 0 ELSE SumTo(pred, y, n - 1) + pred[n][y[n]]

criterion(pred, y) == SumTo(pred, y, Len(y))

\* variant: the two label orderings exchanged
mixup_criterion_swapped(pred, y_a, y_b, l) ==
    l * criterion(pred, y_b) + (LamDen - l) * criterion(pred, y_a)

\* lam * criterion(pred, y_a) + (1 - lam) * criterion(pred, y_b), with lam in
\* units of 1/LamDen: the result is in units of 1/(LamDen * n)
mixup_criterion(pred, y_a, y_b, l) ==
    l * criterion(pred, y_a) + (LamDen - l) * criterion(pred, y_b)

Perms(n) == {f \in [1..n -> 1..n] : \A i, j \in 1..n : f[i] = f[j] => i = j}

\* variant: off by one
ForwardsThroughLimit(i) == i <= EvalLimit

\* whether held-out batch i is forwarded through the model: if i < 10
Forwards(i) == i < EvalLimit

RunIdle ==
    /\ argv = [model |-> "WideResNet28_10", method |-> "rotation", resume |-> FALSE,
               start_epoch |-> 0, stop_epoch |-> 0, save_freq |-> 1]
    /\ runs = 0
    /\ pc = "idle"
    /\ err = "none"
    /\ params = argv
    /\ use_gpu = FALSE
    /\ arch = "dist"
    /\ files = [m \in Methods |-> EmptyDir]
    /\ model = UndefinedModel
    /\ tmp = NoRecord
    /\ state = EmptySD
    /\ start_epoch = 0
    /\ stop_epoch = 0
    /\ path = "none"
    /\ rotate_classifier = UndefinedHead
    /\ epoch = 0
    /\ d_start = 0
    /\ d_stop = 0
    /\ d_tmp = NoRecord
    /\ trained = <<>>
    /\ saved = {}

\* an epoch of either driver begins; both loaders hold at least one batch
BatchInit ==
    /\ RunIdle
    /\ bpc \in {"mixup_train", "rot_train"}
    /\ batch = [x |-> <<>>, y |-> <<>>]
    /\ outputs = <<>>
    /\ aug = NoAug
    /\ lam = 0
    /\ targets = [a |-> <<>>, b |-> <<>>]
    /\ loss = 0
    /\ n_test \in 1..MaxTestBatches
    /\ i_test = 0
    /\ fetched = 0
    /\ forwarded = <<>>
    /\ total = 0

\* one iteration of train_manifold_mixup's training loop: lambda is drawn,
\* the model mixes the batch with a random reordering of itself and returns
\* the logits and the two label orderings, and the loss is their mixup
\* criterion
MixupBatch ==
    /\ bpc = "mixup_train"
    /\ bpc' = "mixup_stepped"
    /\ \E b \in Batches, l \in 0..LamDen :
          \E perm \in Perms(Len(b.y)), pred \in [1..Len(b.y) -> SamplePreds] :
             /\ batch' = b
             /\ lam' = l
             /\ outputs' = pred
             /\ targets' = [a |-> b.y, b |-> [i \in 1..Len(b.y) |-> b.y[perm[i]]]]
             /\ loss' = mixup_criterion(pred, targets'.a, targets'.b, l)
    /\ UNCHANGED <<aug, n_test, i_test, fetched, forwarded, total>>
    /\ UNCHANGED runVars

\* one batch of train_rotation's training loop
RotTrainBatch ==
    /\ bpc = "rot_train"
    /\ \E b \in Batches :
          /\ batch' = b
          /\ aug' = RotatedTrain(b)
    /\ UNCHANGED <<bpc, outputs, lam, targets, loss, n_test, i_test, fetched,
                   forwarded, total>>
    /\ UNCHANGED runVars

\* the training loop ends; correct = rcorrect = total = 0
RotEvalBegin ==
    /\ bpc = "rot_train"
    /\ bpc' = "rot_eval"
    /\ i_test' = 0
    /\ fetched' = 0
    /\ forwarded' = <<>>
    /\ total' = 0
    /\ UNCHANGED <<batch, outputs, aug, lam, targets, loss, n_test>>
    /\ UNCHANGED runVars

\* one iteration of for i, (x, y) in enumerate(base_loader_test)
RotEvalBatch ==
    /\ bpc = "rot_eval"
    /\ i_test < n_test
    /\ \E b \in Batches :
          /\ batch' = b
          /\ IF Forwards(i_test)
             THEN /\ aug' = RotatedEval(b)
                  /\ forwarded' = Append(forwarded, i_test)
                  /\ total' = total + Len(aug'.x_)
             ELSE UNCHANGED <<aug, forwarded, total>>
    /\ fetched' = fetched + 1
    /\ i_test' = i_test + 1
    /\ UNCHANGED <<bpc, outputs, lam, targets, loss, n_test>>
    /\ UNCHANGED runVars

\* the loader is exhausted; the accuracies are printed
RotEvalEnd ==
    /\ bpc = "rot_eval"
    /\ i_test >= n_test
    /\ bpc' = "rot_evaluated"
    /\ UNCHANGED <<batch, outputs, aug, lam, targets, loss, n_test, i_test,
                   fetched, forwarded, total>>
    /\ UNCHANGED runVars

BatchNext ==
    \/ MixupBatch
    \/ RotTrainBatch
    \/ RotEvalBegin
    \/ RotEvalBatch
    \/ RotEvalEnd

SpecBatch == BatchInit /\ [][BatchNext]_vars

-----------------------------------------------------------------------------
(* Properties of the per-batch computations *)

\* image m turned by r quarter turns, pixel by pixel
Turned(m, r) ==
    [i \in 1..Side |-> [k \in 1..Side |->
        IF r = 0 THEN m[i][k]
        ELSE IF r = 1 THEN m[k][Side + 1 - i]
        ELSE IF r = 2 THEN m[Side + 1 - i][Side + 1 - k]
        ELSE m[Side + 1 - k][i]]]

\* aug is the expansion of the batch at hand
AugCurrent ==
    \/ bpc = "rot_train" /\ batch.x # <<>>
    \/ bpc = "rot_eval" /\ i_test \in 1..EvalLimit

\* C5: in the training and in the evaluation loop of train_rotation a batch
\* of n images expands to 4n samples; samples 4j..4j+3 are image j turned by
\* 0, 90, 180 and 270 degrees, in that order, with rotation labels 0, 1, 2, 3
\* and all four with class label y[j].
C5_FourRotations ==
    AugCurrent =>
        LET n == Len(batch.x) IN
        /\ n >= 1
        /\ Len(aug.x_) = 4 * n
        /\ Len(aug.y_) = 4 * n
        /\ Len(aug.a_) = 4 * n
        /\ \A j \in 1..n : \A r \in 0..3 :
              /\ aug.x_[4 * (j - 1) + r + 1] = Turned(batch.x[j], r)
              /\ aug.a_[4 * (j - 1) + r + 1] = r
              /\ aug.y_[4 * (j - 1) + r + 1] = batch.y[j]

C5_Witness ==
    /\ bpc = "rot_eval"
    /\ i_test = 2
    /\ Len(batch.x) = 2
    /\ batch.y[1] # batch.y[2]
    /\ Len(aug.x_) = 8
    /\ aug.x_[8] # aug.x_[6]
    /\ aug.a_ = <<0, 1, 2, 3, 0, 1, 2, 3>>

\* C6: the mixup loss is lambda * CE(pred, a) + (1 - lambda) * CE(pred, b)
\* for every lambda in [0, 1] and every two label orderings; it is CE(pred, b)
\* at lambda = 0, CE(pred, a) at lambda = 1, and the plain average of the two
\* at lambda = 1/2.
C6_MixupLoss ==
    bpc = "mixup_stepped" =>
        LET ca == criterion(outputs, targets.a)
            cb == criterion(outputs, targets.b)
        IN /\ lam \in 0..LamDen
           /\ targets.a = batch.y
           /\ loss = LamDen * cb + lam * (ca - cb)
           /\ lam = 0 => loss = LamDen * cb
           /\ lam = LamDen => loss = LamDen * ca
           /\ 2 * lam = LamDen => 2 * loss = LamDen * (ca + cb)

C6_Witness ==
    /\ bpc = "mixup_stepped"
    /\ Len(batch.y) = 2
    /\ 2 * lam = LamDen
    /\ criterion(outputs, targets.a) # criterion(outputs, targets.b)
    /\ 2 * loss = LamDen * (criterion(outputs, targets.a) + criterion(outputs, targets.b))

Min(a, b) == IF a <= b THEN a ELSE b

\* C7 as stated: an evaluation over N held-out batches forwards exactly the
\* first min(10, N) of them, and never the full held-out set.
C7_NeverFullSet ==
    bpc = "rot_evaluated" =>
        /\ forwarded = [k \in 1..Min(EvalLimit, n_test) |-> k - 1]
        /\ Len(forwarded) # n_test

\* the state of an evaluation, at every point of it
C7_EvalState ==
    bpc \in {"rot_eval", "rot_evaluated"} =>
        /\ i_test <= n_test
        /\ fetched = i_test
        /\ forwarded = [k \in 1..Min(EvalLimit, i_test) |-> k - 1]
        /\ total % 4 = 0
        /\ total >= 4 * Len(forwarded)
        /\ total <= 4 * MaxBatch * Len(forwarded)
        /\ (i_test >= 1 /\ i_test <= EvalLimit) => total >= Len(aug.x_)
        /\ bpc = "rot_evaluated" =>
              /\ fetched = n_test
              /\ Len(forwarded) = Min(EvalLimit, n_test)
              /\ Len(forwarded) = n_test <=> n_test <= EvalLimit

\* C7 amended: an evaluation over N held-out batches draws all N from the
\* loader, forwards exactly the first min(10, N) of them and counts the
\* samples of exactly those in the accuracy totals; it covers the full
\* held-out set exactly when N <= 10.
C7_FirstTen ==
    /\ []C7_EvalState
    /\ [][(bpc = "rot_eval" /\ bpc' = "rot_eval") =>
             /\ i_test < EvalLimit =>
                   /\ forwarded' = Append(forwarded, i_test)
                   /\ total' = total + 4 * Len(batch'.x)
             /\ i_test >= EvalLimit =>
                   /\ forwarded' = forwarded
                   /\ total' = total]_vars

C7_Witness ==
    /\ bpc = "rot_evaluated"
    /\ n_test = EvalLimit + 1
    /\ fetched = n_test
    /\ Len(forwarded) = EvalLimit
    /\ total = 4 * MaxBatch * EvalLimit

=============================================================================
